---- MODULE Spec2Model ----
(***************************************************************************)
(* Model of the retrieval-augmented question answering service:            *)
(*   app/rag/retrieve.py   Retriever.search  (hybrid fusion ranker)        *)
(*   app/rag/generate.py   generate_answer   (generation adapter wrapper)  *)
(*   app/main.py           ask_rag           (filter, gate, fallback,      *)
(*                                            cache, citation selection)   *)
(* Texts are TLA+ strings and the string operations of the code (lower,    *)
(* strip, substring test, regular-expression tokens) are computed on them. *)
(* Scores are exact fixed-point numbers: a component score s is held as    *)
(* s * Scale, a fused score f as f * 100 * Scale.                          *)
(***************************************************************************)
EXTENDS Integers, Sequences, FiniteSets, TLC

(***************************************************************************)
(* Sequences and strings                                                   *)
(***************************************************************************)
Min(a, b) == IF a <= b THEN a ELSE b

Max(a, b) == IF a >= b THEN a ELSE b

Range(s) == {s[i] : i \in 1..Len(s)}

\* s[:n] of Python
Prefix(s, n) == SubSeq(s, 1, Min(n, Len(s)))

\* Python's `sub in s` on strings
Contains(s, sub) ==
    \E i \in 1..(Len(s) - Len(sub) + 1) : SubSeq(s, i, i + Len(sub) - 1) = sub

Upper == <<"A","B","C","D","E","F","G","H","I","J","K","L","M",
           "N","O","P","Q","R","S","T","U","V","W","X","Y","Z">>

LowerLetters == <<"a","b","c","d","e","f","g","h","i","j","k","l","m",
                  "n","o","p","q","r","s","t","u","v","w","x","y","z">>

Digits == {"0","1","2","3","4","5","6","7","8","9"}

LowerMap == [c \in Range(Upper) |-> LowerLetters[CHOOSE i \in 1..26 : Upper[i] = c]]

UpperChars == Range(Upper)

LowerCh(c) == IF c \in UpperChars THEN LowerMap[c] ELSE c

\* str.lower(), character by character (the string is halved to keep the
\* recursion shallow)
RECURSIVE LowerChars(_)
LowerChars(s) ==
    IF s = "" THEN ""
    ELSE IF Len(s) = 1 THEN LowerCh(s)
    ELSE LowerChars(SubSeq(s, 1, Len(s) \div 2))
         \o LowerChars(SubSeq(s, Len(s) \div 2 + 1, Len(s)))

IsSpace(c) == c \in {" ", "\n", "\t"}

RECURSIVE LStrip(_)
LStrip(s) == IF s /= "" /\ IsSpace(Head(s)) THEN LStrip(Tail(s)) ELSE s

RECURSIVE RStrip(_)
RStrip(s) ==
    IF s /= "" /\ IsSpace(SubSeq(s, Len(s), Len(s)))
    THEN RStrip(SubSeq(s, 1, Len(s) - 1)) ELSE s

\* str.strip()
Strip(s) == RStrip(LStrip(s))

AlnumChars == Range(LowerLetters) \cup Digits

IsAlnum(c) == c \in AlnumChars

At(s, i) == SubSeq(s, i, i)

\* set(re.findall(r"[a-z0-9]+", s)): the maximal runs of [a-z0-9] in s, each the
\* text between two neighbouring characters outside [a-z0-9] (or the ends)
TokenSet(s) ==
    LET cuts == {i \in 1..Len(s) : ~IsAlnum(At(s, i))} \cup {0, Len(s) + 1}
        next(a) == CHOOSE b \in cuts : b > a /\ \A c \in cuts : c > a => b <= c
    IN  {SubSeq(s, a + 1, next(a) - 1) : a \in {c \in cuts : c <= Len(s) /\ next(c) > c + 1}}

\* " ".join(parts)
RECURSIVE Join(_)
Join(parts) ==
    IF parts = <<>> THEN ""
    ELSE IF Len(parts) = 1 THEN parts[1]
    ELSE parts[1] \o " " \o Join(Tail(parts))

(***************************************************************************)
(* Bounds and fixed-point unit                                             *)
(***************************************************************************)
\* requests handled one after another in a behaviour
MaxRequests == 2

\* largest top_k a request of the model asks for (the schema allows 1..10)
MaxTopK == 3

\* one unit of a component score: 1.0 is Scale, so that x/|q| for |q| <= 10,
\* 0.05, 0.2 and the modelled 1/(1+dist) are whole numbers
Scale == 7 * 720

(***************************************************************************)
(* The indexed collection (index.py:55-93 stores, per chunk, its id, its   *)
(* text and the metadata doc_id, category, applies_to, section_path)       *)
(***************************************************************************)
Corpus == <<
    [chunk_id |-> "refund-policy::c0000",
     text |-> "Eligibility\n- Eligible for a refund within 14 days.\n- Pro and Team only.",
     metadata |-> [doc_id |-> "refund-policy", category |-> "billing",
                   applies_to |-> "Pro, Team", section_path |-> "Refunds > Eligibility"]],
    [chunk_id |-> "refund-policy::c0001",
     text |-> "How to Request\n- Submit a Refund Request on the billing page.",
     metadata |-> [doc_id |-> "refund-policy", category |-> "billing",
                   applies_to |-> "Free, Pro, Team", section_path |-> "Refunds > How to Request"]],
    [chunk_id |-> "privacy::c0000",
     text |-> "We do not know your password. Data is deleted after 30 days.",
     metadata |-> [doc_id |-> "privacy", category |-> "privacy",
                   applies_to |-> "Free", section_path |-> "Privacy > Retention"]]
>>

DocIdx == 1..Len(Corpus)

Questions == {
    "How long is the refund window for Pro?",
    "How do I request a refund?",
    "What is the capital of France?",
    "How is it?",
    "When is my data deleted?"
}

\* questions that several routing rules of infer_category match, or none
RouteQuestions == {
    "Delete my billing data",
    "Is my data covered by the support SLA?",
    "Is there a ticket for the outage?",
    "What is the status of the incident?",
    "How is it?"
}

\* queries of direct calls of search: one without any token, and that of
\* test_retrieval.py
RepeatQueries == {"???", "refund window pro"}

\* the question two concurrent requests ask
PoolQuestions == {"When is my data deleted?"}

\* " ".join of the texts of up to three different chunks, in any order
JoinedTexts ==
    {Corpus[i].text \o " " \o Corpus[j].text : i, j \in DocIdx} \cup
    {Corpus[i].text \o " " \o Corpus[j].text \o " " \o Corpus[k].text : i, j, k \in DocIdx}

\* The lower-cased form and the tokens of the stored texts, of their joins and of
\* the questions are computed once and looked up; any other string is computed on
\* the spot.
StoredTexts ==
    {Corpus[i].text : i \in DocIdx} \cup JoinedTexts \cup Questions \cup RouteQuestions
    \cup RepeatQueries

StoredLower == [t \in StoredTexts |-> LowerChars(t)]

Lower(s) == IF s \in StoredTexts THEN StoredLower[s] ELSE LowerChars(s)

StoredTokens == [t \in StoredTexts |-> TokenSet(LowerChars(t))]

\* distances the vector index reports, in hundredths: 0.25 and 3.0
Dists == {25, 300}

\* the distance of each chunk to the question: at most one chunk is near
DistTables == {d \in [DocIdx -> Dists] : Cardinality({i \in DocIdx : d[i] = 25}) <= 1}

\* the BM25 score of each chunk for the question: no term matches, or some do
BmTables == {[i \in DocIdx |-> 0], [i \in DocIdx |-> i - 1]}

(***************************************************************************)
(* Retriever (retrieve.py)                                                 *)
(***************************************************************************)
\* _tokens(s): the set of regular-expression tokens of s.lower()
Tokens(s) == IF s \in StoredTexts THEN StoredTokens[s] ELSE TokenSet(Lower(s))

BonusTerms == {"within", "eligible", "refund", "days", "window"}

\* Retriever._keyword_boost
KeywordBoost(query, text) ==
    LET q == Tokens(query)
        t == Tokens(text)
        overlap == (Scale * Cardinality(q \cap t)) \div Max(1, Cardinality(q))
        bonus == (Scale \div 20) * Cardinality((q \cup BonusTerms) \cap t)
    IN  IF q = {} \/ t = {} THEN 0
        ELSE IF Contains(Lower(query), "refund") /\ Contains(Lower(text), "refund")
             THEN overlap + bonus + Scale \div 5
             ELSE overlap + bonus

\* 1.0 / (1.0 + dist), dist in hundredths
VecScore(dist) == (Scale * 100) \div (100 + dist)

\* the vector part of search: one candidate per hit of collection.query
VecOut(hits) ==
    [i \in 1..Len(hits) |->
        [chunk_id |-> Corpus[hits[i].doc].chunk_id,
         text |-> Corpus[hits[i].doc].text,
         metadata |-> Corpus[hits[i].doc].metadata,
         vec_score |-> VecScore(hits[i].dist)]]

\* sorted(range(len(scores)), key=scores, reverse=True): a stable sort, so equal
\* scores keep their order; idxs is the part still to insert, acc the sorted part
RECURSIVE RankByScore(_, _, _)
RankByScore(idxs, scores, acc) ==
    IF idxs = <<>> THEN acc
    ELSE LET i == Head(idxs)
             n == Cardinality({j \in 1..Len(acc) : scores[acc[j]] >= scores[i]})
         IN  RankByScore(Tail(idxs), scores,
                         SubSeq(acc, 1, n) \o <<i>> \o SubSeq(acc, n + 1, Len(acc)))

\* Retriever._bm25_search: docs is the cached snapshot (doc numbers in stored
\* order), scores[d] the BM25 score of doc d for the query
Bm25Search(docs, scores, top_k) ==
    LET ranked == Prefix(RankByScore(docs, scores, <<>>), top_k)
    IN  [i \in 1..Len(ranked) |->
            [chunk_id |-> Corpus[ranked[i]].chunk_id,
             text |-> Corpus[ranked[i]].text,
             metadata |-> Corpus[ranked[i]].metadata,
             bm25_score |-> scores[ranked[i]]]]

SeqMax(s, default) ==
    IF s = <<>> THEN default
    ELSE CHOOSE m \in Range(s) : \A y \in Range(s) : y <= m

\* max([...], default=1.0) or 1.0, in raw score units
BmMax(bm25_out) ==
    LET m == SeqMax([i \in 1..Len(bm25_out) |-> bm25_out[i].bm25_score], 1)
    IN  IF m = 0 THEN 1 ELSE m

\* the merge by chunk_id (upsert): vector candidates first, then the lexical ones;
\* a dict keeps insertion order, so a new id is appended
RECURSIVE MergeVec(_, _)
MergeVec(rs, merged) ==
    IF rs = <<>> THEN merged
    ELSE LET r == Head(rs)
             at == {j \in 1..Len(merged) : merged[j].chunk_id = r.chunk_id}
         IN  IF at = {}
             THEN MergeVec(Tail(rs), Append(merged,
                      [chunk_id |-> r.chunk_id, text |-> r.text, metadata |-> r.metadata,
                       vec_score |-> Max(0, r.vec_score), bm25_norm |-> 0]))
             ELSE LET j == CHOOSE k \in at : TRUE
                  IN  MergeVec(Tail(rs),
                        [merged EXCEPT ![j].vec_score = Max(@, r.vec_score),
                                       ![j].text = IF @ = "" THEN r.text ELSE @,
                                       ![j].metadata = r.metadata])

RECURSIVE MergeBm(_, _, _)
MergeBm(rs, bm_max, merged) ==
    IF rs = <<>> THEN merged
    ELSE LET r == Head(rs)
             norm == (r.bm25_score * Scale) \div bm_max
             at == {j \in 1..Len(merged) : merged[j].chunk_id = r.chunk_id}
         IN  IF at = {}
             THEN MergeBm(Tail(rs), bm_max, Append(merged,
                      [chunk_id |-> r.chunk_id, text |-> r.text, metadata |-> r.metadata,
                       vec_score |-> 0, bm25_norm |-> Max(0, norm)]))
             ELSE LET j == CHOOSE k \in at : TRUE
                  IN  MergeBm(Tail(rs), bm_max,
                        [merged EXCEPT ![j].bm25_norm = Max(@, norm),
                                       ![j].text = IF @ = "" THEN r.text ELSE @,
                                       ![j].metadata = r.metadata])

\* the weights of the comment above the fusion (0.60, 0.30, 0.10)
FinalScore_CommentWeights(vec_score, bm25_norm, keyword_boost) ==
    60 * vec_score + 30 * bm25_norm + 10 * keyword_boost

\* step 5 of search, in units of 1/(100 * Scale)
FinalScore(vec_score, bm25_norm, keyword_boost) ==
    55 * vec_score + 30 * bm25_norm + 15 * keyword_boost

Scored(query, merged) ==
    [i \in 1..Len(merged) |->
        LET kb == KeywordBoost(query, merged[i].text)
            fs == FinalScore(merged[i].vec_score, merged[i].bm25_norm, kb)
        IN  [chunk_id |-> merged[i].chunk_id, text |-> merged[i].text,
             metadata |-> merged[i].metadata, vec_score |-> merged[i].vec_score,
             bm25_norm |-> merged[i].bm25_norm, keyword_boost |-> kb,
             final_score |-> fs, score |-> fs]]

\* an ascending sort, the slip `reverse=True` left out
RECURSIVE SortAscending(_, _)
SortAscending(rs, acc) ==
    IF rs = <<>> THEN acc
    ELSE LET r == Head(rs)
             n == Cardinality({j \in 1..Len(acc) : acc[j].final_score <= r.final_score})
         IN  SortAscending(Tail(rs),
                           SubSeq(acc, 1, n) \o <<r>> \o SubSeq(acc, n + 1, Len(acc)))

\* a descending sort that puts a candidate before those of equal score (what
\* sorting ascending and reversing gives)
RECURSIVE SortByFinal_TiesReversed(_, _)
SortByFinal_TiesReversed(rs, acc) ==
    IF rs = <<>> THEN acc
    ELSE LET r == Head(rs)
             n == Cardinality({j \in 1..Len(acc) : acc[j].final_score > r.final_score})
         IN  SortByFinal_TiesReversed(Tail(rs),
                         SubSeq(acc, 1, n) \o <<r>> \o SubSeq(acc, n + 1, Len(acc)))

\* out.sort(key=final_score, reverse=True): stable, descending
RECURSIVE SortByFinal(_, _)
SortByFinal(rs, acc) ==
    IF rs = <<>> THEN acc
    ELSE LET r == Head(rs)
             n == Cardinality({j \in 1..Len(acc) : acc[j].final_score >= r.final_score})
         IN  SortByFinal(Tail(rs),
                         SubSeq(acc, 1, n) \o <<r>> \o SubSeq(acc, n + 1, Len(acc)))

\* vec_k and bm25_k of search
MinFetch == 10

FetchK(top_k) == Max(MinFetch, top_k * 3)

\* Retriever.search: hits is what collection.query returns for the query's
\* embedding when asked for n nearest (by distance, nearest first), docs and scores
\* the lexical side
Search(query, top_k, hits, docs, scores) ==
    LET vec_out == VecOut(Prefix(hits, FetchK(top_k)))
        bm25_out == Bm25Search(docs, scores, FetchK(top_k))
        merged == MergeBm(bm25_out, BmMax(bm25_out), MergeVec(vec_out, <<>>))
    IN  Prefix(SortByFinal(Scored(query, merged), <<>>), top_k)

(***************************************************************************)
(* Helpers of the service (main.py)                                        *)
(***************************************************************************)
\* Python's None where a string may stand (Optional[str])
None == "<None>"

\* truth value of an Optional[str]
Truthy(v) == v /= None /\ v /= ""

STOPWORDS == {
    "the","a","an","and","or","to","for","of","in","on","with","is","are","do","does",
    "how","what","when","where","why","can","i","we","you","your","our","it","this","that"
}

\* _keywords
Keywords(text) ==
    {t \in Tokens(text) : Len(t) >= 4 /\ t \notin STOPWORDS}

Texts(results) == [i \in 1..Len(results) |-> results[i].text]

\* _evidence_mentions_question
EvidenceMentionsQuestion(question, results) ==
    LET qk == Keywords(question)
        evidence_text == Lower(Join(Texts(Prefix(results, 3))))
    IN  IF qk = {} THEN TRUE
        ELSE \E k \in qk : Contains(evidence_text, k)

\* the refusal test without lower()
IsIdk_CaseSensitive(text) ==
    LET t == Strip(text)
    IN  Contains(t, "don't know") \/ Contains(t, "do not know")

\* _is_idk
IsIdk(text) ==
    LET t == Lower(Strip(text))
    IN  Contains(t, "don't know") \/ Contains(t, "do not know")

\* the rules in another order: privacy before billing
InferCategory_PrivacyFirst(question) ==
    LET q == Lower(question)
        AnyIn(ks) == \E k \in ks : Contains(q, k)
    IN  IF AnyIn({"privacy", "retention", "delete", "gdpr", "data"}) THEN "privacy"
        ELSE IF AnyIn({"refund", "billing", "plan", "pricing", "downgrade", "upgrade",
                       "past due"})
        THEN "billing"
        ELSE IF AnyIn({"support", "response time", "sla", "ticket"}) THEN "support"
        ELSE IF AnyIn({"incident", "outage", "status", "downtime"}) THEN "operations"
        ELSE None

\* infer_category
InferCategory(question) ==
    LET q == Lower(question)
        AnyIn(ks) == \E k \in ks : Contains(q, k)
    IN  IF AnyIn({"refund", "billing", "plan", "pricing", "downgrade", "upgrade", "past due"})
        THEN "billing"
        ELSE IF AnyIn({"privacy", "retention", "delete", "gdpr", "data"}) THEN "privacy"
        ELSE IF AnyIn({"support", "response time", "sla", "ticket"}) THEN "support"
        ELSE IF AnyIn({"incident", "outage", "status", "downtime"}) THEN "operations"
        ELSE None

\* the applies_to test without lower()
FilterResults_CaseSensitive(results, category, applies_to) ==
    SelectSeq(results, LAMBDA r :
        /\ ~(Truthy(category) /\ r.metadata.category /= category)
        /\ ~(Truthy(applies_to) /\ ~Contains(r.metadata.applies_to, applies_to)))

\* filter_results
FilterResults(results, category, applies_to) ==
    SelectSeq(results, LAMBDA r :
        /\ ~(Truthy(category) /\ r.metadata.category /= category)
        /\ ~(Truthy(applies_to)
             /\ ~Contains(Lower(r.metadata.applies_to), Lower(applies_to))))

\* the two heuristics as alternatives: the second is tried only when the question
\* is not one for the first
PickBestChunk_ElseIf(question, results) ==
    LET q == Lower(question)
        First(Test(_)) ==
            LET hit == {i \in 1..Len(results) : Test(Lower(results[i].text))}
            IN  IF hit = {} THEN 0 ELSE CHOOSE i \in hit : \A j \in hit : i <= j
        window == First(LAMBDA t : Contains(t, "eligible") /\ Contains(t, "within")
                                   /\ Contains(t, "days"))
        request == First(LAMBDA t : Contains(t, "refund request"))
        default == IF results /= <<>> THEN 1 ELSE 0
    IN  IF /\ Contains(q, "refund")
           /\ (Contains(q, "window") \/ Contains(q, "how long") \/ Contains(q, "eligible"))
        THEN (IF window /= 0 THEN window ELSE default)
        ELSE IF Contains(q, "request a refund")
                \/ (Contains(q, "how do i") /\ Contains(q, "refund"))
        THEN (IF request /= 0 THEN request ELSE default)
        ELSE default

\* the position in results of the chunk _pick_best_chunk_for_question returns,
\* 0 for None
PickBestChunk(question, results) ==
    LET q == Lower(question)
        First(Test(_)) ==
            LET hit == {i \in 1..Len(results) : Test(Lower(results[i].text))}
            IN  IF hit = {} THEN 0 ELSE CHOOSE i \in hit : \A j \in hit : i <= j
        window == First(LAMBDA t : Contains(t, "eligible") /\ Contains(t, "within")
                                   /\ Contains(t, "days"))
        request == First(LAMBDA t : Contains(t, "refund request"))
        default == IF results /= <<>> THEN 1 ELSE 0
    IN  IF /\ Contains(q, "refund")
           /\ (Contains(q, "window") \/ Contains(q, "how long") \/ Contains(q, "eligible"))
           /\ window /= 0
        THEN window
        ELSE IF /\ (Contains(q, "request a refund")
                    \/ (Contains(q, "how do i") /\ Contains(q, "refund")))
                /\ request /= 0
        THEN request
        ELSE default

\* str.splitlines() on "\n": the text between line ends, without a last empty line
SplitLines(s) ==
    LET ends == {i \in 1..Len(s) : At(s, i) = "\n"} \cup
                (IF s /= "" /\ At(s, Len(s)) /= "\n" THEN {Len(s) + 1} ELSE {})
        start(e) == IF \E d \in ends : d < e
                    THEN 1 + CHOOSE d \in ends : d < e /\ \A c \in ends : c < e => c <= d
                    ELSE 1
        nth(k) == CHOOSE e \in ends : Cardinality({d \in ends : d <= e}) = k
    IN  [k \in 1..Cardinality(ends) |-> SubSeq(s, start(nth(k)), nth(k) - 1)]

\* max_chars of _extract_answer_from_chunk
MaxChars == 220

\* the length under which the second bullet is joined
JoinBelow == 120

\* the extraction that joins the second bullet whatever the length of the first
ExtractAnswerFromChunk_JoinAlways(chunk_text) ==
    LET raw_lines == SplitLines(chunk_text)
        stripped == [i \in 1..Len(raw_lines) |-> Strip(raw_lines[i])]
        lines == SelectSeq(stripped, LAMBDA ln : ln /= "")
        bullets == SelectSeq(lines, LAMBDA ln : Head(ln) = "-")
        out == IF Len(bullets) > 1
               THEN bullets[1] \o " " \o bullets[2]
               ELSE bullets[1]
    IN  IF lines = <<>> THEN ""
        ELSE IF bullets /= <<>> THEN Strip(Prefix(out, MaxChars))
        ELSE Strip(Prefix(lines[1], MaxChars))

\* _extract_answer_from_chunk
ExtractAnswerFromChunk(chunk_text) ==
    LET raw_lines == SplitLines(chunk_text)
        stripped == [i \in 1..Len(raw_lines) |-> Strip(raw_lines[i])]
        lines == SelectSeq(stripped, LAMBDA ln : ln /= "")
        bullets == SelectSeq(lines, LAMBDA ln : Head(ln) = "-")
        out == IF Len(bullets) > 1 /\ Len(bullets[1]) < JoinBelow
               THEN bullets[1] \o " " \o bullets[2]
               ELSE bullets[1]
    IN  IF lines = <<>> THEN ""
        ELSE IF bullets /= <<>> THEN Strip(Prefix(out, MaxChars))
        ELSE Strip(Prefix(lines[1], MaxChars))

IdkSentence == "I don't know based on the provided documents."

(***************************************************************************)
(* Generation adapter (generate.py)                                        *)
(***************************************************************************)
\* generate_answer returning the ids as reported, the subset step left out
GenerateAnswer_Unfiltered(question, contexts, raw) ==
    LET final_answer == Strip(raw.final_answer)
        used == IF raw.used_is_list THEN raw.used ELSE <<>>
        failed(why) == [final_answer |-> IdkSentence, used_chunk_ids |-> <<>>,
                        warning |-> "generation_failed: " \o why]
    IN  IF raw.kind = "http_error" THEN failed("HTTPError")
        ELSE IF raw.kind = "no_json" THEN failed("ValueError")
        ELSE IF final_answer = "" THEN failed("ValueError")
        ELSE [final_answer |-> final_answer, used_chunk_ids |-> used, warning |-> None]

\* generate_answer on what the model server returned (raw): an HTTP failure or
\* timeout, a body holding no JSON object, or a JSON object with final_answer and
\* used_chunk_ids (used_is_list: whether that value is a list)
GenerateAnswer(question, contexts, raw) ==
    LET allowed_ids == {contexts[i].chunk_id : i \in 1..Len(contexts)}
        final_answer == Strip(raw.final_answer)
        used == IF raw.used_is_list THEN raw.used ELSE <<>>
        failed(why) == [final_answer |-> IdkSentence, used_chunk_ids |-> <<>>,
                        warning |-> "generation_failed: " \o why]
    IN  IF raw.kind = "http_error" THEN failed("HTTPError")
        ELSE IF raw.kind = "no_json" THEN failed("ValueError")
        ELSE IF final_answer = "" THEN failed("ValueError")
        ELSE [final_answer |-> final_answer,
              used_chunk_ids |-> SelectSeq(used, LAMBDA u : u \in allowed_ids),
              warning |-> None]

(***************************************************************************)
(* State                                                                   *)
(***************************************************************************)
VARIABLES
    question,   \* the question the requests of this behaviour ask
    index,      \* what the two indexes hold for that question: hits (the vector
                \* index's answer, nearest first), docs (the BM25 snapshot) and
                \* scores (the BM25 score of each doc)
    cache,      \* retrieval_cache: cache key -> filtered ranked list
    workers,    \* the threads that run ask_rag
    h,          \* per thread: the locals of the ask_rag call it runs
    served      \* requests received so far

vars == <<question, index, cache, workers, h, served>>

Procs == {"w1", "w2"}

\* a threshold of 0.35
LowerThreshold == 35 * Scale

\* the threshold the gate compares the top score with (main.py:158)
ConfidenceThreshold == 45 * Scale

NoResponse ==
    [question |-> "", final_answer |-> "", citations |-> <<>>,
     retrieval_debug |-> [top_k |-> 0, results |-> <<>>, reason |-> None,
                          top_score |-> 0, gen_warning |-> None,
                          category |-> None, applies_to |-> None]]

NoGen == [final_answer |-> "", used_chunk_ids |-> <<>>, warning |-> None]

Idle ==
    [pc |-> "idle",
     req |-> [question |-> "", top_k |-> 1, category |-> None, applies_to |-> None,
              routed |-> FALSE],
     effective_category |-> None,
     results |-> <<>>,
     top_score |-> 0,
     contexts |-> <<>>,
     gen |-> NoGen,
     final_answer |-> "",
     best |-> None,
     used |-> {},
     cache_hit |-> FALSE,
     generations |-> 0,
     searches |-> 0,
     fault |-> None,
     events |-> <<>>,
     response |-> NoResponse]

\* a search that finds the BM25 snapshot only once an earlier call has loaded it
RetrieverSearch_ColdStart(q, top_k) ==
    Search(q, top_k, index.hits,
           IF \E p \in Procs : h[p].searches > 0 THEN index.docs ELSE <<>>,
           index.scores)

\* retriever.search(req.question, top_k=req.top_k) on the indexes as they are
RetrieverSearch(q, top_k) == Search(q, top_k, index.hits, index.docs, index.scores)

\* what the model server may send back
RawAnswers == {" The refund window is 14 days. ", "Sorry, I Do Not Know.", "  "}

RawUsed == {<<>>, <<"refund-policy::c0001">>,
            <<"privacy::c0000", "refund-policy::c0001", "refund-policy::c0000">>,
            <<"made-up::c0009">>}

RawOutcomes ==
    {[kind |-> "http_error", final_answer |-> "", used |-> <<>>, used_is_list |-> TRUE],
     [kind |-> "no_json", final_answer |-> "", used |-> <<>>, used_is_list |-> TRUE],
     [kind |-> "json", final_answer |-> " The refund window is 14 days. ",
      used |-> <<>>, used_is_list |-> FALSE]}
    \cup [kind : {"json"}, final_answer : RawAnswers, used : RawUsed, used_is_list : {TRUE}]

ReqCategories == {None, "privacy"}

ReqAppliesTo == {None, "pro"}

\* Citation(...) of one selected result
SnippetChars == 220

Citation(r) ==
    [chunk_id |-> r.chunk_id, doc_id |-> r.metadata.doc_id,
     section_path |-> r.metadata.section_path, score |-> r.score,
     snippet |-> Prefix(r.text, SnippetChars)]

MaxCitations == 2

(***************************************************************************)
(* ask_rag, step by step                                                   *)
(***************************************************************************)
\* POST /rag/ask: FastAPI builds req and calls ask_rag on a pool thread. routed
\* tells whether the request object has the attributes category and applies_to
\* (the AskRagRequest of schemas.py:12-14 declares neither)
Arrive(p) ==
    /\ p \in workers
    /\ h[p].pc \in {"idle", "done", "fault"}
    /\ served < MaxRequests
    /\ \E k \in 1..MaxTopK, c \in ReqCategories, a \in ReqAppliesTo, routed \in BOOLEAN :
        /\ ~routed => (c = None /\ a = None)
        /\ h' = [h EXCEPT ![p] = [Idle EXCEPT
                    !.pc = "retrieve",
                    !.req = [question |-> question, top_k |-> k, category |-> c,
                             applies_to |-> a, routed |-> routed]]]
    /\ served' = served + 1
    /\ UNCHANGED <<question, index, cache, workers>>

\* a refusal that still cites what was found
Refusal_CitesTop(req, results, reason, top_score) ==
    [question |-> req.question,
     final_answer |-> IdkSentence,
     citations |-> [i \in 1..Min(1, Len(results)) |-> Citation(results[i])],
     retrieval_debug |-> [top_k |-> req.top_k, results |-> results, reason |-> reason,
                          top_score |-> top_score, gen_warning |-> None,
                          category |-> None, applies_to |-> None]]

\* the refusal response of the gate (main.py:159-169, 173-183)
Refusal(req, results, reason, top_score) ==
    [question |-> req.question,
     final_answer |-> IdkSentence,
     citations |-> <<>>,
     retrieval_debug |-> [top_k |-> req.top_k, results |-> results, reason |-> reason,
                          top_score |-> top_score, gen_warning |-> None,
                          category |-> None, applies_to |-> None]]

\* the gate of the streaming endpoint, which has no topic check
Gate_ConfidenceOnly(q, results) ==
    LET top_score == IF results /= <<>> THEN results[1].score ELSE 0
    IN  IF results = <<>> \/ top_score < ConfidenceThreshold
        THEN "low_retrieval_confidence"
        ELSE "proceed"

\* the two checks in the other order
Gate_TopicFirst(q, results) ==
    LET top_score == IF results /= <<>> THEN results[1].score ELSE 0
    IN  IF ~EvidenceMentionsQuestion(q, results) THEN "topic_mismatch"
        ELSE IF results = <<>> \/ top_score < ConfidenceThreshold
        THEN "low_retrieval_confidence"
        ELSE "proceed"

\* the gate of ask_rag on the filtered list: "proceed" or the refusal's reason
Gate(q, results) ==
    LET top_score == IF results /= <<>> THEN results[1].score ELSE 0
    IN  IF results = <<>> \/ top_score < ConfidenceThreshold
        THEN "low_retrieval_confidence"
        ELSE IF ~EvidenceMentionsQuestion(q, results) THEN "topic_mismatch"
        ELSE "proceed"

\* ask_rag up to the call of generate_answer: search, routing, filter, gate
RetrieveAndGate(p) ==
    /\ p \in workers
    /\ h[p].pc = "retrieve"
    /\ LET req == h[p].req
           found == RetrieverSearch(req.question, req.top_k)
           effective_category == IF Truthy(req.category) THEN req.category
                                 ELSE InferCategory(req.question)
           results == FilterResults(found, effective_category, req.applies_to)
           top_score == IF results /= <<>> THEN results[1].score ELSE 0
           verdict == Gate(req.question, results)
       IN  IF ~req.routed
           THEN \* req.category: the object has no such attribute
                h' = [h EXCEPT ![p].pc = "fault", ![p].fault = "AttributeError",
                               ![p].searches = @ + 1]
           ELSE IF verdict /= "proceed"
           THEN h' = [h EXCEPT ![p].pc = "done",
                               ![p].searches = @ + 1,
                               ![p].effective_category = effective_category,
                               ![p].results = results,
                               ![p].top_score = top_score,
                               ![p].response = Refusal(req, results, verdict, top_score)]
           ELSE h' = [h EXCEPT ![p].pc = "generate",
                               ![p].searches = @ + 1,
                               ![p].effective_category = effective_category,
                               ![p].results = results,
                               ![p].top_score = top_score]
    /\ UNCHANGED <<question, index, cache, workers, served>>

\* gen = generate_answer(...) and the extractive fallback (main.py:187-202)
Generate(p) ==
    /\ p \in workers
    /\ h[p].pc = "generate"
    /\ \E raw \in RawOutcomes :
        LET req == h[p].req
            results == h[p].results
            gen == GenerateAnswer(req.question, results, raw)
            best == PickBestChunk(req.question, results)
        IN  h' = [h EXCEPT
                ![p].pc = "cache_get",
                ![p].generations = @ + 1,
                ![p].contexts = results,
                ![p].gen = gen,
                ![p].best = IF gen.warning /= None /\ best /= 0
                            THEN results[best].chunk_id ELSE None,
                ![p].final_answer =
                    IF gen.warning = None THEN Strip(gen.final_answer)
                    ELSE IF best /= 0 THEN ExtractAnswerFromChunk(results[best].text)
                    ELSE IdkSentence,
                ![p].used =
                    IF gen.warning = None THEN Range(gen.used_chunk_ids)
                    ELSE IF best /= 0 THEN {results[best].chunk_id}
                    ELSE {}]
    /\ UNCHANGED <<question, index, cache, workers, served>>

\* a key that leaves out what the list was filtered by
CacheKey_NoFilters(req, effective_category) == <<req.question, req.top_k>>

\* cache_key of ask_rag
CacheKey(req, effective_category) ==
    <<req.question, req.top_k, effective_category, req.applies_to>>

\* cached = retrieval_cache.get(cache_key), and the hit branch
CacheGet(p) ==
    /\ p \in workers
    /\ h[p].pc = "cache_get"
    /\ LET key == CacheKey(h[p].req, h[p].effective_category)
       IN  IF key \in DOMAIN cache
           THEN h' = [h EXCEPT ![p].pc = "cite", ![p].results = cache[key],
                               ![p].cache_hit = TRUE]
           ELSE h' = [h EXCEPT ![p].pc = "cache_put", ![p].cache_hit = FALSE]
    /\ UNCHANGED <<question, index, cache, workers, served>>

\* the miss branch storing the list as searched, the filter left out
CachePut_Unfiltered(p) ==
    /\ p \in workers
    /\ h[p].pc = "cache_put"
    /\ LET req == h[p].req
           key == CacheKey(req, h[p].effective_category)
           results == RetrieverSearch(req.question, req.top_k)
       IN  /\ h' = [h EXCEPT ![p].pc = "cite", ![p].results = results,
                             ![p].searches = @ + 1]
           /\ cache' = [k \in DOMAIN cache \cup {key} |->
                            IF k = key THEN results ELSE cache[k]]
    /\ UNCHANGED <<question, index, workers, served>>

\* the miss branch: search again, filter, store
CachePut(p) ==
    /\ p \in workers
    /\ h[p].pc = "cache_put"
    /\ LET req == h[p].req
           key == CacheKey(req, h[p].effective_category)
           results == FilterResults(RetrieverSearch(req.question, req.top_k),
                                    h[p].effective_category, req.applies_to)
       IN  /\ h' = [h EXCEPT ![p].pc = "cite", ![p].results = results,
                             ![p].searches = @ + 1]
           /\ cache' = [k \in DOMAIN cache \cup {key} |->
                            IF k = key THEN results ELSE cache[k]]
    /\ UNCHANGED <<question, index, workers, served>>

\* the ids ask_rag cites from (main.py:221): read again from gen
UsedForCitations(hp) == Range(hp.gen.used_chunk_ids)

\* the selection that never looks at the ids used
Selected_TopOnly(results, used) == <<results[1]>>

\* the selection without the branch for an empty used set
Selected_NoDefault(results, used) ==
    SelectSeq(results, LAMBDA r : r.chunk_id \in used)

\* the results ask_rag cites (main.py:227-233); needs results[0] when nothing matches
Selected(results, used) ==
    LET matched == SelectSeq(results, LAMBDA r : r.chunk_id \in used)
    IN  IF used /= {} /\ matched /= <<>> THEN matched ELSE <<results[1]>>

\* citation selection and the response (main.py:221-266)
Cite(p) ==
    /\ p \in workers
    /\ h[p].pc = "cite"
    /\ LET req == h[p].req
           results == h[p].results
           used == UsedForCitations(h[p])
           matched == SelectSeq(results, LAMBDA r : r.chunk_id \in used)
           idk == IsIdk(h[p].final_answer)
           selected == Prefix(Selected(results, used), MaxCitations)
       IN  IF ~idk /\ matched = <<>> /\ results = <<>>
           THEN \* results[0] of an empty list
                h' = [h EXCEPT ![p].pc = "fault", ![p].fault = "IndexError",
                               ![p].used = used]
           ELSE h' = [h EXCEPT
                    ![p].pc = "done",
                    ![p].used = used,
                    ![p].response =
                        [question |-> req.question,
                         final_answer |-> h[p].final_answer,
                         citations |-> IF idk THEN <<>>
                                       ELSE [i \in 1..Len(selected) |-> Citation(selected[i])],
                         retrieval_debug |->
                            [top_k |-> req.top_k, results |-> results, reason |-> None,
                             top_score |-> h[p].top_score,
                             gen_warning |-> h[p].gen.warning,
                             category |-> h[p].effective_category,
                             applies_to |-> req.applies_to]]]
    /\ UNCHANGED <<question, index, cache, workers, served>>

\* TTLCache drops an entry: its time-to-live ran out, or it was the least
\* recently used one of a full cache
Evict ==
    /\ \E key \in DOMAIN cache :
        cache' = [k \in DOMAIN cache \ {key} |-> cache[k]]
    /\ UNCHANGED <<question, index, workers, h, served>>

\* the chunks of the set stored, in stored order
StoredOrder(stored) == SelectSeq([i \in DocIdx |-> i], LAMBDA i : i \in stored)

\* collection.query on a collection holding the chunks of the set stored: all of
\* them, nearest first (n_results exceeds the collection), given each chunk's
\* distance to the question
VectorHits(dist, stored) ==
    LET order == RankByScore(StoredOrder(stored), [d \in DocIdx |-> 0 - dist[d]], <<>>)
    IN  [i \in 1..Len(order) |-> [doc |-> order[i], dist |-> dist[order[i]]]]

\* the service after start-up: retriever built, cache empty, no request yet
Init ==
    /\ question \in Questions
    /\ \E dist \in DistTables, scores \in BmTables :
        index = [hits |-> VectorHits(dist, DocIdx), docs |-> StoredOrder(DocIdx),
                 scores |-> scores]
    /\ cache = <<>>
    /\ workers = {"w1"}
    /\ h = [p \in Procs |-> Idle]
    /\ served = 0

Next ==
    \/ \E p \in Procs : Arrive(p)
    \/ \E p \in Procs : RetrieveAndGate(p)
    \/ \E p \in Procs : Generate(p)
    \/ \E p \in Procs : CacheGet(p)
    \/ \E p \in Procs : CachePut(p)
    \/ \E p \in Procs : Cite(p)
    \/ Evict

Spec == Init /\ [][Next]_vars

(***************************************************************************)
(* The retriever on its own: search called directly, as the retrieval      *)
(* tests do, on any state of the two indexes. The BM25 snapshot is loaded  *)
(* once (_load_all_docs) while the collection is queried live, so the      *)
(* chunks the vector side returns and the chunks of the snapshot may       *)
(* differ.                                                                 *)
(***************************************************************************)
RankBmScores == {0, 1, 2}

InitRank ==
    /\ question \in Questions
    /\ \E dist \in [DocIdx -> Dists], in_collection \in SUBSET DocIdx,
          in_snapshot \in SUBSET DocIdx, scores \in [DocIdx -> RankBmScores] :
        index = [hits |-> VectorHits(dist, in_collection),
                 docs |-> StoredOrder(in_snapshot),
                 scores |-> scores]
    /\ cache = <<>>
    /\ workers = {"w1"}
    /\ h = [p \in Procs |-> Idle]
    /\ served = 0

\* results = retriever.search(question, top_k=k)
SearchCall(p) ==
    /\ p \in workers
    /\ h[p].pc = "idle"
    /\ \E k \in 1..MaxTopK :
        h' = [h EXCEPT ![p].pc = "searched",
                       ![p].req = [@ EXCEPT !.question = question, !.top_k = k],
                       ![p].searches = @ + 1,
                       ![p].results = RetrieverSearch(question, k)]
    /\ UNCHANGED <<question, index, cache, workers, served>>

NextRank == \E p \in Procs : SearchCall(p)

SpecRank == InitRank /\ [][NextRank]_vars

(***************************************************************************)
(* Two callers of search on the same retriever, on any state of the two    *)
(* indexes, with queries that make final scores tie                        *)
(***************************************************************************)
InitRepeat ==
    /\ question \in RepeatQueries
    /\ \E dist \in [DocIdx -> Dists], in_collection \in SUBSET DocIdx,
          in_snapshot \in SUBSET DocIdx, scores \in BmTables :
        index = [hits |-> VectorHits(dist, in_collection),
                 docs |-> StoredOrder(in_snapshot),
                 scores |-> scores]
    /\ cache = <<>>
    /\ workers = Procs
    /\ h = [p \in Procs |-> Idle]
    /\ served = 0

SpecRepeat == InitRepeat /\ [][NextRank]_vars

(***************************************************************************)
(* The service with two pool threads: FastAPI runs the synchronous handler *)
(* ask_rag on a thread pool, so two calls interleave between their steps   *)
(* and share retrieval_cache.                                              *)
(***************************************************************************)
\* the chunk the question is about is the near one
PoolDistTables == {d \in DistTables : d[3] = 25}

InitPool ==
    /\ question \in PoolQuestions
    /\ \E dist \in PoolDistTables, scores \in {t \in BmTables : t[3] > 0} :
        index = [hits |-> VectorHits(dist, DocIdx), docs |-> StoredOrder(DocIdx),
                 scores |-> scores]
    /\ cache = <<>>
    /\ workers = Procs
    /\ h = [p \in Procs |-> Idle]
    /\ served = 0

SpecPool == InitPool /\ [][Next]_vars

(***************************************************************************)
(* The service asked questions that several routing rules match            *)
(***************************************************************************)
InitRoute ==
    /\ question \in RouteQuestions
    /\ \E dist \in {d \in DistTables : d[1] /= 25}, scores \in {t \in BmTables : t[3] > 0} :
        index = [hits |-> VectorHits(dist, DocIdx), docs |-> StoredOrder(DocIdx),
                 scores |-> scores]
    /\ cache = <<>>
    /\ workers = {"w1"}
    /\ h = [p \in Procs |-> Idle]
    /\ served = 0

SpecRoute == InitRoute /\ [][Next]_vars

(***************************************************************************)
(* The helpers on their own: filter_results, _pick_best_chunk_for_question *)
(* and generate_answer called directly, as test_routing.py does, on any    *)
(* short list of candidates. The list handed in is kept in contexts, the   *)
(* filters in req.                                                         *)
(***************************************************************************)
\* candidates a caller may hand in: the chunks of the collection and one whose
\* metadata differs from them in letter case only
UnitPool ==
    {Corpus[i] : i \in DocIdx} \cup
    {[chunk_id |-> "b", text |-> "Privacy\n- REFUND REQUEST forms are kept 30 days.",
      metadata |-> [doc_id |-> "b", category |-> "Privacy",
                    applies_to |-> "Free, PRO", section_path |-> "Privacy"]]}

\* the lists of up to three different candidates
UnitLists ==
    {<<>>} \cup {<<a>> : a \in UnitPool}
    \cup {s \in {<<a, b>> : a \in UnitPool, b \in UnitPool} : s[1] /= s[2]}
    \cup {s \in {<<a, b, c>> : a \in UnitPool, b \in UnitPool, c \in UnitPool} :
                s[1] /= s[2] /\ s[1] /= s[3] /\ s[2] /= s[3]}

UnitQuestions == {
    "How long is the refund window for Pro?",
    "How do I request a refund?",
    "How do I request a refund and how long is the window?",
    "Am I ELIGIBLE for a Refund?",
    "When is my data deleted?"
}

UnitCategories == {None, "", "billing", "privacy"}

UnitAppliesTo == {None, "", "pro", "TEAM", "enterprise"}

InitUnit ==
    /\ question \in UnitQuestions
    /\ index = [hits |-> <<>>, docs |-> <<>>, scores |-> [i \in DocIdx |-> 0]]
    /\ cache = <<>>
    /\ workers = {"w1"}
    /\ \E list \in UnitLists, c \in UnitCategories, a \in UnitAppliesTo :
        h = [p \in Procs |->
                IF p = "w1"
                THEN [Idle EXCEPT !.contexts = list, !.req.question = question,
                                  !.req.category = c, !.req.applies_to = a]
                ELSE Idle]
    /\ served = 0

\* out = filter_results(results, category=..., applies_to=...)
FilterCall(p) ==
    /\ p \in workers
    /\ h[p].pc = "idle"
    /\ h' = [h EXCEPT ![p].pc = "filtered",
                      ![p].results = FilterResults(h[p].contexts, h[p].req.category,
                                                   h[p].req.applies_to)]
    /\ UNCHANGED <<question, index, cache, workers, served>>

\* best = _pick_best_chunk_for_question(question, results)
PickCall(p) ==
    /\ p \in workers
    /\ h[p].pc = "idle"
    /\ LET best == PickBestChunk(h[p].req.question, h[p].contexts)
       IN  h' = [h EXCEPT ![p].pc = "picked",
                          ![p].best = IF best = 0 THEN None
                                      ELSE h[p].contexts[best].chunk_id]
    /\ UNCHANGED <<question, index, cache, workers, served>>

\* gen = generate_answer(question, contexts) on any reply of the model server;
\* used keeps the ids as the reply named them (the local used of generate.py:78)
GenerateCall(p) ==
    /\ p \in workers
    /\ h[p].pc = "idle"
    /\ \E raw \in RawOutcomes :
        h' = [h EXCEPT ![p].pc = "generated",
                       ![p].generations = @ + 1,
                       ![p].used = IF raw.kind = "json" /\ raw.used_is_list
                                   THEN Range(raw.used) ELSE {},
                       ![p].gen = GenerateAnswer(h[p].req.question, h[p].contexts, raw)]
    /\ UNCHANGED <<question, index, cache, workers, served>>

NextUnit ==
    \/ \E p \in Procs : FilterCall(p)
    \/ \E p \in Procs : PickCall(p)
    \/ \E p \in Procs : GenerateCall(p)

SpecUnit == InitUnit /\ [][NextUnit]_vars

(***************************************************************************)
(* The extractive fallback on its own: _extract_answer_from_chunk called   *)
(* on the text of one chunk, as ask_rag calls it on best["text"]           *)
(* (main.py:195). The chunk is the only element of h["w1"].contexts.       *)
(***************************************************************************)
\* lines per chunk text
MaxLines == 3

\* s written n times
RECURSIVE Rep(_, _)
Rep(s, n) ==
    IF n = 0 THEN ""
    ELSE IF n = 1 THEN s
    ELSE Rep(s, n \div 2) \o Rep(s, n - n \div 2)

\* the lines a chunk text is made of: blank ones, headings, bullets that are
\* short, indented, one character either side of the joining length, and lines
\* longer than max_chars
ExtractLines == {
    "",
    "   ",
    "Refund Policy",
    "- Eligible within 14 days.",
    "  - Pro and Team only.  ",
    "- " \o Rep("a", JoinBelow - 3),
    "- " \o Rep("b", JoinBelow - 2),
    "- " \o Rep("c ", JoinBelow),
    Rep("d", MaxChars + 10)
}

\* "\n".join(parts)
RECURSIVE JoinLines(_)
JoinLines(parts) ==
    IF parts = <<>> THEN ""
    ELSE IF Len(parts) = 1 THEN parts[1]
    ELSE parts[1] \o "\n" \o JoinLines(Tail(parts))

\* the chunk texts of up to MaxLines lines
ExtractTexts ==
    {JoinLines(ls) : ls \in UNION {[1..n -> ExtractLines] : n \in 0..MaxLines}}

InitExtract ==
    /\ question \in {"How long is the refund window for Pro?"}
    /\ index = [hits |-> <<>>, docs |-> <<>>, scores |-> [i \in DocIdx |-> 0]]
    /\ cache = <<>>
    /\ workers = {"w1"}
    /\ \E text \in ExtractTexts :
        h = [p \in Procs |->
                IF p = "w1"
                THEN [Idle EXCEPT !.req.question = question,
                                  !.contexts = <<[Corpus[1] EXCEPT !.text = text]>>]
                ELSE Idle]
    /\ served = 0

\* final_answer = _extract_answer_from_chunk(best["text"])
ExtractCall(p) ==
    /\ p \in workers
    /\ h[p].pc = "idle"
    /\ h' = [h EXCEPT ![p].pc = "extracted",
                      ![p].best = h[p].contexts[1].chunk_id,
                      ![p].final_answer = ExtractAnswerFromChunk(h[p].contexts[1].text)]
    /\ UNCHANGED <<question, index, cache, workers, served>>

NextExtract == \E p \in Procs : ExtractCall(p)

SpecExtract == InitExtract /\ [][NextExtract]_vars

(***************************************************************************)
(* ask_rag_stream: the handler builds the response, then the server        *)
(* iterates the event generator it was given; h[p].events are the events   *)
(* sent to the client so far. The handler has no await, so it runs to its  *)
(* return in one step; each yield of a generator is a step.                *)
(***************************************************************************)
\* tokens streamed per answer
MaxTokens == 2

\* the non-empty contents the model server may stream
StreamTokens == {"The refund window", " is 14 days."}

\* selected of ask_rag_stream (main.py:284-291)
StreamSelected(results) ==
    LET top1 == results[1]
    IN  IF Len(results) > 1
           /\ (\/ results[2].metadata.doc_id = top1.metadata.doc_id
               \/ results[2].metadata.category = top1.metadata.category)
        THEN <<top1, results[2]>>
        ELSE <<top1>>

\* the events of kind token sent so far
TokenEvents(events) == SelectSeq(events, LAMBDA e : e.event = "token")

\* POST /rag/ask/stream: FastAPI builds req and calls ask_rag_stream
StreamArrive(p) ==
    /\ p \in workers
    /\ h[p].pc \in {"idle", "closed", "aborted", "fault"}
    /\ served < MaxRequests
    /\ \E k \in 1..MaxTopK, c \in ReqCategories, a \in ReqAppliesTo, routed \in BOOLEAN :
        /\ ~routed => (c = None /\ a = None)
        /\ h' = [h EXCEPT ![p] = [Idle EXCEPT
                    !.pc = "stream",
                    !.req = [question |-> question, top_k |-> k, category |-> c,
                             applies_to |-> a, routed |-> routed]]]
    /\ served' = served + 1
    /\ UNCHANGED <<question, index, cache, workers>>

\* the body of ask_rag_stream: search, routing, filter, confidence check, and the
\* choice of the generator handed to EventSourceResponse (main.py:270-320)
StreamOpen(p) ==
    /\ p \in workers
    /\ h[p].pc = "stream"
    /\ LET req == h[p].req
           found == RetrieverSearch(req.question, req.top_k)
           effective_category == IF Truthy(req.category) THEN req.category
                                 ELSE InferCategory(req.question)
           results == FilterResults(found, effective_category, req.applies_to)
           top_score == IF results /= <<>> THEN results[1].score ELSE 0
       IN  IF ~req.routed
           THEN \* req.category: the object has no such attribute
                h' = [h EXCEPT ![p].pc = "fault", ![p].fault = "AttributeError",
                               ![p].searches = @ + 1]
           ELSE h' = [h EXCEPT
                    ![p].pc = IF results = <<>> \/ top_score < ConfidenceThreshold
                              THEN "idk_meta" ELSE "meta",
                    ![p].searches = @ + 1,
                    ![p].effective_category = effective_category,
                    ![p].results = results,
                    ![p].top_score = top_score]
    /\ UNCHANGED <<question, index, cache, workers, served>>

\* _idk: first yield
IdkMeta(p) ==
    /\ p \in workers
    /\ h[p].pc = "idk_meta"
    /\ h' = [h EXCEPT ![p].pc = "idk_token",
                      ![p].events = Append(@, [event |-> "meta",
                            data |-> [reason |-> "low_retrieval_confidence",
                                      top_score |-> h[p].top_score]])]
    /\ UNCHANGED <<question, index, cache, workers, served>>

\* _idk: second yield
IdkToken(p) ==
    /\ p \in workers
    /\ h[p].pc = "idk_token"
    /\ h' = [h EXCEPT ![p].pc = "idk_done",
                      ![p].events = Append(@, [event |-> "token", data |-> IdkSentence])]
    /\ UNCHANGED <<question, index, cache, workers, served>>

\* _idk: third yield, and the end of the generator
IdkDone(p) ==
    /\ p \in workers
    /\ h[p].pc = "idk_done"
    /\ h' = [h EXCEPT ![p].pc = "closed",
                      ![p].events = Append(@, [event |-> "done", data |-> "true"])]
    /\ UNCHANGED <<question, index, cache, workers, served>>

\* event_gen: the meta event with the citations selected
EmitMeta(p) ==
    /\ p \in workers
    /\ h[p].pc = "meta"
    /\ LET selected == StreamSelected(h[p].results)
       IN  h' = [h EXCEPT ![p].pc = "tokens",
                          ![p].events = Append(@, [event |-> "meta",
                                data |-> [question |-> h[p].req.question,
                                          top_score |-> h[p].top_score,
                                          category |-> h[p].effective_category,
                                          applies_to |-> h[p].req.applies_to,
                                          citations |-> [i \in 1..Len(selected) |->
                                                            Citation(selected[i])]]])]
    /\ UNCHANGED <<question, index, cache, workers, served>>

\* event_gen: stream_answer_text yields the content of one line of the reply
EmitToken(p) ==
    /\ p \in workers
    /\ h[p].pc = "tokens"
    /\ Len(TokenEvents(h[p].events)) < MaxTokens
    /\ \E tok \in StreamTokens :
        h' = [h EXCEPT ![p].generations = 1,
                       ![p].events = Append(@, [event |-> "token", data |-> tok])]
    /\ UNCHANGED <<question, index, cache, workers, served>>

\* event_gen: stream_answer_text raises (the server is unreachable, answers with
\* an error status, or the read times out); nothing in event_gen or in
\* ask_rag_stream catches it, so the generator ends there
StreamFail(p) ==
    /\ p \in workers
    /\ h[p].pc = "tokens"
    /\ h' = [h EXCEPT ![p].pc = "aborted", ![p].generations = 1,
                      ![p].fault = "HTTPError"]
    /\ UNCHANGED <<question, index, cache, workers, served>>

\* event_gen: the reply ended (a line with done, or no more lines); the done
\* event and the end of the generator
EmitDone(p) ==
    /\ p \in workers
    /\ h[p].pc = "tokens"
    /\ h' = [h EXCEPT ![p].pc = "closed", ![p].generations = 1,
                      ![p].events = Append(@, [event |-> "done", data |-> "true"])]
    /\ UNCHANGED <<question, index, cache, workers, served>>

NextStream ==
    \/ \E p \in Procs : StreamArrive(p)
    \/ \E p \in Procs : StreamOpen(p)
    \/ \E p \in Procs : IdkMeta(p)
    \/ \E p \in Procs : IdkToken(p)
    \/ \E p \in Procs : IdkDone(p)
    \/ \E p \in Procs : EmitMeta(p)
    \/ \E p \in Procs : EmitToken(p)
    \/ \E p \in Procs : StreamFail(p)
    \/ \E p \in Procs : EmitDone(p)

SpecStream == Init /\ [][NextStream]_vars

(***************************************************************************)
(* Properties                                                              *)
(***************************************************************************)
\* an ask_rag call that has returned a response
Responded(p) == h[p].pc = "done"

\* the response is a refusal of the gate
GateRefused(p) == Responded(p) /\ h[p].response.retrieval_debug.reason /= None

\* the refusal test of the claims, spelled out: the trimmed, lower-cased answer
\* contains "don't know" or "do not know"
SaysIdk(text) ==
    LET t == LowerChars(Strip(text))
    IN  Contains(t, "don't know") \/ Contains(t, "do not know")

CitedIds(p) ==
    {h[p].response.citations[i].chunk_id : i \in 1..Len(h[p].response.citations)}

IdsOf(results) == {results[i].chunk_id : i \in 1..Len(results)}

\* C1: a response that is a refusal (the gate refused, or the final answer says
\* it does not know) has no citations, whatever ids the generator reported
C1_RefusalHasNoCitations ==
    \A p \in Procs :
        (Responded(p) /\ (GateRefused(p) \/ SaysIdk(h[p].response.final_answer)))
            => h[p].response.citations = <<>>

\* C1 witness: the generator answered that it does not know and still named
\* chunks it was given
C1_Witness ==
    \E p \in Procs :
        /\ Responded(p) /\ ~GateRefused(p)
        /\ h[p].gen.warning = None
        /\ h[p].gen.used_chunk_ids /= <<>>
        /\ SaysIdk(h[p].response.final_answer)
        /\ h[p].response.citations = <<>>

\* C2: in a response that is not a refusal every citation names a chunk of the
\* filtered ranked list that was handed to generate_answer for this request
C2_CitationsTraceable ==
    \A p \in Procs :
        (Responded(p) /\ ~GateRefused(p) /\ ~SaysIdk(h[p].response.final_answer))
            => CitedIds(p) \subseteq IdsOf(h[p].contexts)

\* C2 witness: citations picked from a list that came out of the cache
C2_Witness ==
    \E p \in Procs :
        /\ Responded(p) /\ ~GateRefused(p)
        /\ h[p].cache_hit
        /\ Len(h[p].response.citations) = 2
        /\ CitedIds(p) \subseteq IdsOf(h[p].contexts)

\* the filtered list is not empty and its top final score is below 0.45
LowTop(results) == results /= <<>> /\ results[1].final_score < 45 * Scale

\* C3: a non-empty filtered list whose top final score is below 0.45 is refused
\* with the low-confidence reason and never reaches generation
C3_LowConfidenceRefuses ==
    \A p \in Procs :
        /\ (GateRefused(p) /\ LowTop(h[p].results))
            => h[p].response.retrieval_debug.reason = "low_retrieval_confidence"
        /\ h[p].pc = "generate" => ~LowTop(h[p].results)
        /\ h[p].generations > 0 => ~LowTop(h[p].contexts)

\* C3 witness: refused for low confidence although a lower-ranked candidate shares
\* a keyword with the question
C3_Witness ==
    \E p \in Procs :
        /\ GateRefused(p) /\ LowTop(h[p].results)
        /\ Len(h[p].results) >= 2
        /\ h[p].response.retrieval_debug.reason = "low_retrieval_confidence"
        /\ \E k \in {"refund"} : /\ Contains(LowerChars(h[p].req.question), k)
                                  /\ Contains(LowerChars(h[p].results[2].text), k)

\* the meaningful keywords of the claims, spelled out
MeaningfulKeywords(q) ==
    {t \in Tokens(q) : Len(t) >= 4 /\ t \notin STOPWORDS}

\* the filtered list passes the confidence check
Confident(results) == results /= <<>> /\ results[1].final_score >= 45 * Scale

\* none of the question's keywords occurs in the joined text of the top 3 candidates
NoKeywordInTop3(q, results) ==
    LET keys == MeaningfulKeywords(q)
        top3 == Join([i \in 1..Min(3, Len(results)) |-> Lower(results[i].text)])
    IN  keys /= {} /\ \A k \in keys : ~Contains(top3, k)

\* C4: a confident list whose top 3 texts hold none of the question's meaningful
\* keywords is refused with topic_mismatch; a question without meaningful keywords
\* passes the topic check
C4_TopicMismatchRefuses ==
    \A p \in Procs :
        /\ (h[p].pc \in {"generate", "done"} /\ Confident(h[p].results)
            /\ NoKeywordInTop3(h[p].req.question, h[p].results))
            => /\ GateRefused(p)
               /\ h[p].response.retrieval_debug.reason = "topic_mismatch"
        /\ (GateRefused(p) /\ MeaningfulKeywords(h[p].req.question) = {})
            => h[p].response.retrieval_debug.reason /= "topic_mismatch"
        /\ (h[p].pc \in {"generate", "done"} /\ Confident(h[p].results)
            /\ MeaningfulKeywords(h[p].req.question) = {})
            => ~GateRefused(p)

\* C4 witness: a confident list about something else than the question
C4_Witness ==
    \E p \in Procs :
        /\ GateRefused(p)
        /\ Confident(h[p].results)
        /\ NoKeywordInTop3(h[p].req.question, h[p].results)
        /\ h[p].response.retrieval_debug.reason = "topic_mismatch"

\* a question without meaningful keywords went past the gate
C4_NoKeywordReached ==
    \E p \in Procs :
        /\ h[p].pc = "generate"
        /\ MeaningfulKeywords(h[p].req.question) = {}

\* C5 as claimed: an empty filtered list is refused with the reason no_results,
\* which is not the reason of a weak top score, and top_score 0.0
C5_EmptyHasOwnReason ==
    \A p \in Procs :
        (GateRefused(p) /\ h[p].results = <<>>)
            => /\ h[p].response.retrieval_debug.reason = "no_results"
               /\ h[p].response.retrieval_debug.top_score = 0

\* C5 as amended: an empty filtered list is refused with the reason
\* low_retrieval_confidence, the one a weak top score gets too, and top_score 0.0,
\* and never reaches generation
C5_EmptyRefusedLowConfidence ==
    \A p \in Procs :
        /\ (GateRefused(p) /\ h[p].results = <<>>)
            => /\ h[p].response.retrieval_debug.reason = "low_retrieval_confidence"
               /\ h[p].response.retrieval_debug.top_score = 0
        /\ h[p].pc = "generate" => h[p].results /= <<>>
        /\ h[p].generations > 0 => h[p].contexts /= <<>>

\* C5 witness: the filter left nothing of a search that found something
C5_Witness ==
    \E p \in Procs :
        /\ GateRefused(p)
        /\ h[p].results = <<>>
        /\ h[p].req.category = "privacy"
        /\ h[p].response.retrieval_debug.reason = "low_retrieval_confidence"
        /\ h[p].response.retrieval_debug.top_score = 0

\* the topic check of the claims on a list
TopicPasses(q, results) ==
    LET keys == MeaningfulKeywords(q)
        top3 == Join([i \in 1..Min(3, Len(results)) |-> Lower(results[i].text)])
    IN  keys = {} \/ \E k \in keys : Contains(top3, k)

\* C6: a request the gate refuses never calls generate_answer, and its response is
\* the fixed refusal sentence without citations, with the reason and the top
\* score; generate_answer is called only on a list the gate let pass
C6_RefusalShortCircuits ==
    \A p \in Procs :
        /\ GateRefused(p)
            => /\ h[p].generations = 0
               /\ h[p].response.final_answer = "I don't know based on the provided documents."
               /\ h[p].response.citations = <<>>
               /\ h[p].response.retrieval_debug.reason
                    \in {"low_retrieval_confidence", "topic_mismatch"}
               /\ h[p].response.retrieval_debug.top_score
                    = IF h[p].results = <<>> THEN 0 ELSE h[p].results[1].final_score
        /\ h[p].generations > 0
            => /\ Confident(h[p].contexts)
               /\ TopicPasses(h[p].req.question, h[p].contexts)
               /\ h[p].generations = 1

\* C6 witness: a refusal of a non-empty list, the generator never called
C6_Witness ==
    \E p \in Procs :
        /\ GateRefused(p)
        /\ h[p].results /= <<>>
        /\ h[p].generations = 0
        /\ h[p].response.citations = <<>>
        /\ h[p].response.retrieval_debug.top_score > 0

\* C7 as claimed: when generation failed and the fallback chose a candidate, the
\* response cites exactly that candidate
C7_FallbackCitesChosen ==
    \A p \in Procs :
        (Responded(p) /\ ~GateRefused(p) /\ h[p].gen.warning /= None /\ h[p].best /= None)
            => /\ Len(h[p].response.citations) = 1
               /\ h[p].response.citations[1].chunk_id = h[p].best

\* C8: a response that is not a refusal has at least one citation
C8_AnswerHasCitation ==
    \A p \in Procs :
        (Responded(p) /\ ~GateRefused(p) /\ ~SaysIdk(h[p].response.final_answer))
            => Len(h[p].response.citations) >= 1

\* C8 witness: a generated answer that names no chunk
C8_Witness ==
    \E p \in Procs :
        /\ Responded(p) /\ ~GateRefused(p)
        /\ h[p].gen.warning = None
        /\ h[p].gen.used_chunk_ids = <<>>
        /\ ~SaysIdk(h[p].response.final_answer)
        /\ Len(h[p].response.citations) = 1

\* C9 as claimed: no request ends in a fault; each ends in a response
C9_NoPropagatedFault ==
    \A p \in Procs : h[p].pc /= "fault"

\* C10: whatever the query and top_k, the list search returns is sorted
\* non-increasing by final_score and is at most top_k long
C10_SortedAndBounded ==
    \A p \in Procs : h[p].pc = "searched" =>
        /\ Len(h[p].results) <= h[p].req.top_k
        /\ \A i \in 1..(Len(h[p].results) - 1) :
              h[p].results[i].final_score >= h[p].results[i + 1].final_score

\* C10 witness: a search cut to top_k whose two results differ in score
C10_Witness ==
    \E p \in Procs :
        /\ h[p].pc = "searched"
        /\ h[p].req.top_k = 2
        /\ Len(h[p].results) = 2
        /\ h[p].results[1].final_score > h[p].results[2].final_score
        /\ Cardinality({index.hits[i].doc : i \in 1..Len(index.hits)}
                        \cup Range(index.docs)) > 2

\* a filter value counts as given when it is neither None nor empty
Given(v) == v /= None /\ v /= ""

\* the candidate r meets the filters c (category) and a (applies_to)
Meets(r, c, a) ==
    /\ Given(c) => r.metadata.category = c
    /\ Given(a) => Contains(LowerChars(r.metadata.applies_to), LowerChars(a))

\* the k-th smallest number of the set S
Kth(S, k) == CHOOSE i \in S : Cardinality({j \in S : j <= i}) = k

\* C11: filter_results returns exactly the candidates that have the category asked
\* for (when given) and whose applies_to contains the value asked for, letter case
\* aside (when given), in the order they came in; nothing matching gives <<>>
C11_FilterKeepsMatching ==
    \A p \in Procs : h[p].pc = "filtered" =>
        LET in == h[p].contexts
            out == h[p].results
            keep == {i \in 1..Len(in) : Meets(in[i], h[p].req.category, h[p].req.applies_to)}
        IN  /\ Len(out) = Cardinality(keep)
            /\ \A k \in 1..Len(out) : out[k] = in[Kth(keep, k)]

\* C11 witness: both filters given, the value of applies_to in another letter case;
\* the middle candidate of three is dropped and the other two keep their order
C11_Witness ==
    \E p \in Procs :
        /\ h[p].pc = "filtered"
        /\ h[p].req.category = "billing" /\ h[p].req.applies_to = "TEAM"
        /\ Len(h[p].contexts) = 3 /\ Len(h[p].results) = 2
        /\ h[p].results[1] = h[p].contexts[1]
        /\ h[p].results[2] = h[p].contexts[3]

\* the question is one for the refund-window heuristic / the refund-request one
AsksWindow(q) ==
    /\ Contains(LowerChars(q), "refund")
    /\ \E w \in {"window", "how long", "eligible"} : Contains(LowerChars(q), w)

AsksRequest(q) ==
    \/ Contains(LowerChars(q), "request a refund")
    \/ (Contains(LowerChars(q), "how do i") /\ Contains(LowerChars(q), "refund"))

\* the ids of the candidates of the list whose lower-cased text contains every word
\* of the set, first to last
Holding(list, words) ==
    SelectSeq(list, LAMBDA r : \A w \in words : Contains(LowerChars(r.text), w))

FirstIdOr(list, default) == IF list = <<>> THEN default ELSE list[1].chunk_id

TopId(list) == FirstIdOr(list, None)

\* C20 as claimed: heuristic (b) is tried only when the question is not one for
\* (a), and an applicable heuristic that finds nothing gives the top candidate
C20_HeuristicsExclusive ==
    \A p \in Procs : h[p].pc = "picked" =>
        LET q == h[p].req.question
            list == h[p].contexts
        IN  h[p].best =
                IF AsksWindow(q)
                THEN FirstIdOr(Holding(list, {"eligible", "within", "days"}), TopId(list))
                ELSE IF AsksRequest(q)
                THEN FirstIdOr(Holding(list, {"refund request"}), TopId(list))
                ELSE TopId(list)

\* C20 as amended: heuristic (b) is also tried when the question is one for (a)
\* and (a) found no candidate; the top candidate is the choice when no heuristic
\* applies or none of the applicable ones finds a candidate (none for an empty list)
C20_HeuristicsFallThrough ==
    \A p \in Procs : h[p].pc = "picked" =>
        LET q == h[p].req.question
            list == h[p].contexts
            window == Holding(list, {"eligible", "within", "days"})
            request == Holding(list, {"refund request"})
        IN  h[p].best =
                IF AsksWindow(q) /\ window /= <<>> THEN window[1].chunk_id
                ELSE IF AsksRequest(q) /\ request /= <<>> THEN request[1].chunk_id
                ELSE TopId(list)

\* C20 witness: a question for both heuristics, no candidate for the first, and
\* the candidate of the second is not the top one
C20_Witness ==
    \E p \in Procs :
        /\ h[p].pc = "picked"
        /\ AsksWindow(h[p].req.question) /\ AsksRequest(h[p].req.question)
        /\ Holding(h[p].contexts, {"eligible", "within", "days"}) = <<>>
        /\ Len(h[p].contexts) >= 2
        /\ h[p].best = h[p].contexts[2].chunk_id
        /\ Contains(h[p].contexts[2].text, "REFUND REQUEST")

\* the filtered ranked list a cache key <<question, top_k, category, applies_to>>
\* determines
ListOfKey(key) ==
    SelectSeq(RetrieverSearch(key[1], key[2]), LAMBDA r : Meets(r, key[3], key[4]))

\* the cache key of the request a thread is serving
KeyOf(p) ==
    <<h[p].req.question, h[p].req.top_k, h[p].effective_category, h[p].req.applies_to>>

\* the thread has been through the cache step of its request
PastCache(p) == h[p].pc = "cite" \/ (Responded(p) /\ ~GateRefused(p))

\* C15: however the steps of concurrent requests interleave, every value the cache
\* holds under a key is the filtered ranked list that key determines, and every
\* request past its cache step holds that list, read or stored
C15_CacheValuesDetermined ==
    /\ \A key \in DOMAIN cache : cache[key] = ListOfKey(key)
    /\ \A p \in Procs : PastCache(p) => h[p].results = ListOfKey(KeyOf(p))

\* C15 witness: two requests with the same key both missed and both stored; the
\* last writer left the list of the key
C15_Witness ==
    /\ PastCache("w1") /\ PastCache("w2")
    /\ KeyOf("w1") = KeyOf("w2")
    /\ ~h["w1"].cache_hit /\ ~h["w2"].cache_hit
    /\ KeyOf("w1") \in DOMAIN cache
    /\ cache[KeyOf("w1")] /= <<>>
    /\ h["w1"].results = cache[KeyOf("w1")]
    /\ h["w1"].req.category /= h["w2"].req.category

\* the inference rules in their order: a category and the terms that select it
RoutingRules == <<
    [category |-> "billing",
     terms |-> {"refund", "billing", "plan", "pricing", "downgrade", "upgrade", "past due"}],
    [category |-> "privacy", terms |-> {"privacy", "retention", "delete", "gdpr", "data"}],
    [category |-> "support", terms |-> {"support", "response time", "sla", "ticket"}],
    [category |-> "operations", terms |-> {"incident", "outage", "status", "downtime"}] >>

\* the rules the question matches, by position
RulesMatching(q) ==
    LET lowered == Lower(q)
    IN  {i \in 1..Len(RoutingRules) :
            \E t \in RoutingRules[i].terms : Contains(lowered, t)}

\* the category supplied if one is, else that of the first matching rule, else none
ExpectedCategory(req) ==
    LET matching == RulesMatching(req.question)
    IN  IF Given(req.category) THEN req.category
        ELSE IF matching = {} THEN None
        ELSE RoutingRules[Kth(matching, 1)].category

\* the thread is past the routing step of a request that has the two attributes
Routed(p) ==
    h[p].req.routed /\ h[p].pc \in {"generate", "cache_get", "cache_put", "cite", "done"}

\* C12: the effective category is the one supplied, else that of the first matching
\* rule in the order billing, privacy, support, operations, else none; the list is
\* filtered by it, and the key the cache is read and written under carries it
C12_EffectiveCategory ==
    /\ [](\A p \in Procs : Routed(p) =>
            LET expected == ExpectedCategory(h[p].req)
            IN  /\ h[p].effective_category = expected
                /\ Given(expected) =>
                      \A i \in 1..Len(h[p].results) :
                          h[p].results[i].metadata.category = expected)
    /\ [][\A p \in {w \in Procs : h[w].pc \in {"cache_get", "cache_put"}} :
            LET key == <<h[p].req.question, h[p].req.top_k, ExpectedCategory(h[p].req),
                         h[p].req.applies_to>>
            IN  /\ (h[p].pc = "cache_put" /\ h'[p].pc = "cite")
                      => (key \in DOMAIN cache' /\ DOMAIN cache' = DOMAIN cache \cup {key})
                /\ (h[p].pc = "cache_get" /\ h'[p].pc = "cite")
                      => (key \in DOMAIN cache /\ h'[p].results = cache[key])
                /\ (h[p].pc = "cache_get" /\ h'[p].pc = "cache_put")
                      => key \notin DOMAIN cache]_vars

\* C12 witness: no category supplied, a question that the privacy and the support
\* rule both match, answered with the privacy category in the key of the cached list
C12_Witness ==
    \E p \in Procs :
        /\ Responded(p) /\ ~GateRefused(p)
        /\ h[p].req.category = None
        /\ Cardinality(RulesMatching(h[p].req.question)) = 2
        /\ h[p].effective_category = "privacy"
        /\ KeyOf(p) \in DOMAIN cache

\* generation succeeded for the request and its answer is not a refusal
Answered(p) ==
    /\ Responded(p) /\ ~GateRefused(p)
    /\ h[p].gen.warning = None
    /\ ~SaysIdk(h[p].response.final_answer)

\* the chunk ids of the citations of the response, in order
CitedSeq(p) ==
    [i \in 1..Len(h[p].response.citations) |-> h[p].response.citations[i].chunk_id]

\* the ids of the candidates of the list that are in the set, in list order
IdsIn(results, ids) ==
    LET hit == SelectSeq(results, LAMBDA r : r.chunk_id \in ids)
    IN  [i \in 1..Len(hit) |-> hit[i].chunk_id]

\* C13: after a successful generation with a non-refusal answer the citations are
\* the ranked candidates whose id is among the used ids, in ranked order, the
\* first two at most; when no ranked candidate is among them, the top candidate
C13_CitesUsedInRankedOrder ==
    \A p \in Procs : Answered(p) =>
        LET ranked == h[p].results
            matched == IdsIn(ranked, Range(h[p].gen.used_chunk_ids))
        IN  CitedSeq(p) = IF matched /= <<>> THEN SubSeq(matched, 1, Min(2, Len(matched)))
                          ELSE <<ranked[1].chunk_id>>

\* C13 witness: three used ids, all ranked, in another order than the ranking; the
\* first two of the ranking are cited
C13_Witness ==
    \E p \in Procs :
        /\ Answered(p)
        /\ Len(h[p].gen.used_chunk_ids) = 3
        /\ Len(h[p].results) = 3
        /\ Len(h[p].response.citations) = 2
        /\ CitedSeq(p) /= SubSeq(h[p].gen.used_chunk_ids, 1, 2)
        /\ CitedSeq(p) = <<h[p].results[1].chunk_id, h[p].results[2].chunk_id>>

\* the second candidate shares doc_id or category with the first
Near(results) ==
    /\ Len(results) > 1
    /\ \/ results[2].metadata.doc_id = results[1].metadata.doc_id
       \/ results[2].metadata.category = results[1].metadata.category

\* C14 as claimed: after a successful generation with a non-refusal answer and no
\* used ids, the top candidate is cited, and the second one too exactly when it
\* shares doc_id or category with the top one
C14_ProximityCitations ==
    \A p \in Procs :
        (Answered(p) /\ h[p].gen.used_chunk_ids = <<>>) =>
            CitedSeq(p) = IF Near(h[p].results)
                          THEN <<h[p].results[1].chunk_id, h[p].results[2].chunk_id>>
                          ELSE <<h[p].results[1].chunk_id>>

\* the score of a candidate as the fusion of its three components
Fused(r) == 55 * r.vec_score + 30 * r.bm25_norm + 15 * r.keyword_boost

\* the section path of the candidate names eligibility
OnEligibility(r) == Contains(LowerChars(r.metadata.section_path), "eligibility")

\* the lists of candidates a request holds or has returned
ListsOf(p) == {h[p].results, h[p].contexts, h[p].response.retrieval_debug.results}

C17_UsedIdsAreCandidates ==
    \A p \in Procs : h[p].pc = "generated" =>
        /\ Range(h[p].gen.used_chunk_ids) \subseteq IdsOf(h[p].contexts)
        /\ h[p].gen.warning = None
              => Range(h[p].gen.used_chunk_ids) = h[p].used \cap IdsOf(h[p].contexts)
        /\ h[p].gen.warning /= None => h[p].gen.used_chunk_ids = <<>>

\* C17 witness: the reply names an id that no candidate has, and ids of candidates;
\* only the latter are handed on
C17_Witness ==
    \E p \in Procs :
        /\ h[p].pc = "generated"
        /\ h[p].gen.warning = None
        /\ "privacy::c0000" \in h[p].used \ IdsOf(h[p].contexts)
        /\ Len(h[p].gen.used_chunk_ids) = 2
        /\ Len(h[p].contexts) = 3

VecIds == [i \in 1..Len(index.hits) |-> Corpus[index.hits[i].doc].chunk_id]

\* chunk a of the snapshot comes before chunk b in the lexical result: a higher
\* BM25 score, or the same score and an earlier place in the snapshot
LexBefore(a, b) ==
    LET pos(d) == CHOOSE i \in 1..Len(index.docs) : index.docs[i] = d
    IN  \/ index.scores[a] > index.scores[b]
        \/ (index.scores[a] = index.scores[b] /\ pos(a) < pos(b))

\* candidate x was fetched before candidate y: vector candidates in vector result
\* order, then the lexical-only ones in lexical result order
FetchedBefore(x, y) ==
    LET vpos(id) == {i \in 1..Len(VecIds) : VecIds[i] = id}
        doc(id) == CHOOSE d \in DocIdx : Corpus[d].chunk_id = id
    IN  IF vpos(x) /= {} /\ vpos(y) /= {}
        THEN \E i \in vpos(x), j \in vpos(y) : i < j
        ELSE IF vpos(x) /= {} THEN TRUE
        ELSE IF vpos(y) /= {} THEN FALSE
        ELSE LexBefore(doc(x), doc(y))

\* C19: among candidates of equal final score the fused list keeps the order in
\* which they were fetched, and the list returned is the first top_k of the whole
\* sorted list
C19_StableTies ==
    \A p \in Procs : h[p].pc = "searched" =>
        LET whole == RetrieverSearch(h[p].req.question, Len(Corpus))
            out == h[p].results
        IN  /\ out = SubSeq(whole, 1, Min(h[p].req.top_k, Len(whole)))
            /\ \A i, j \in 1..Len(whole) :
                  (i < j /\ whole[i].final_score = whole[j].final_score)
                      => FetchedBefore(whole[i].chunk_id, whole[j].chunk_id)

\* C19 witness: three vector candidates of equal final score; the two fetched
\* first are returned for top_k = 2, in fetch order
C19_Witness ==
    \E p \in Procs :
        /\ h[p].pc = "searched"
        /\ h[p].req.top_k = 2
        /\ Len(index.hits) = 3
        /\ Len(h[p].results) = 2
        /\ h[p].results[1].final_score = h[p].results[2].final_score
        /\ h[p].results[1].chunk_id = VecIds[1]
        /\ h[p].results[2].chunk_id = VecIds[2]
        /\ \A i \in 1..3 : 55 * VecScore(index.hits[i].dist) = h[p].results[1].final_score

(***************************************************************************)
(* C21: the extracted fallback answer                                      *)
(***************************************************************************)
\* the lines of a text that are not blank, each without the white space around it
NonBlankLines(text) ==
    LET raw == SplitLines(text)
    IN  SelectSeq([i \in 1..Len(raw) |-> Strip(raw[i])], LAMBDA ln : ln /= "")

\* those of them that begin with "-"
BulletLines(text) == SelectSeq(NonBlankLines(text), LAMBDA ln : At(ln, 1) = "-")

\* what the answer is built from, before its length is bounded
Built(text) ==
    LET lines == NonBlankLines(text)
        bullets == BulletLines(text)
    IN  IF bullets = <<>> THEN lines[1]
        ELSE IF Len(bullets) >= 2 /\ Len(bullets[1]) < 120
        THEN bullets[1] \o " " \o bullets[2]
        ELSE bullets[1]

C22_CacheBeforeGeneration ==
    \A p \in Procs :
        /\ h[p].pc = "cache_put" => h[p].generations = 0
        /\ h[p].searches <= 1

(***************************************************************************)
(* C23: the events of the streaming endpoint                               *)
(***************************************************************************)
\* the kinds of the events sent, in order
Kinds(p) == [i \in 1..Len(h[p].events) |-> h[p].events[i].event]

\* the event generator of the request has ended, by returning or by raising
StreamEnded(p) == h[p].pc \in {"closed", "aborted"}

\* C23: on the streaming endpoint the first event of a request is its only meta
\* event, a done event is followed by no other, a request that passed the
\* confidence check carries at most 2 citations in its meta event and has sent
\* done as its last event once its stream has ended, and a refused request's
\* stream is meta, one token with the refusal sentence, done.
C23_StreamEvents ==
    \A p \in Procs :
        LET ev == h[p].events
            kinds == Kinds(p)
        IN  /\ \A i \in 1..Len(ev) :
                /\ kinds[i] = "meta" <=> i = 1
                /\ kinds[i] = "done" => i = Len(ev)
            /\ (h[p].pc \in {"tokens", "closed", "aborted"} /\ Confident(h[p].results)) =>
                    /\ ev /= <<>>
                    /\ Len(ev[1].data.citations) <= 2
            /\ (StreamEnded(p) /\ Confident(h[p].results)) =>
                    kinds[Len(ev)] = "done"
            /\ (StreamEnded(p) /\ ~Confident(h[p].results)) =>
                    /\ kinds = <<"meta", "token", "done">>
                    /\ ev[2].data = IdkSentence

====
